---------------------------- MODULE Spec2Model ----------------------------
(***************************************************************************)
(* Model of src/index.ts: the indicator library (ema, trueRange, atr,      *)
(* sma), the strategy evaluator analyzeSymbol, and the driver main() with  *)
(* its concurrent per-symbol tasks and its top-level catch handler.        *)
(*                                                                         *)
(* JavaScript numbers are binary floating point with round-to-nearest,     *)
(* ties-to-even.  A number is modelled as a pair <<n, d>>:                  *)
(*   d > 0  : the finite value n/d, d a power of two, in lowest terms;     *)
(*   <<1,0>>, <<-1,0>> : +Infinity, -Infinity;   <<0,0>> : NaN.            *)
(* Every arithmetic operation computes the exact rational and rounds it to *)
(* MantBits significant bits (the exponent range is not bounded).          *)
(***************************************************************************)
EXTENDS Integers, Sequences, FiniteSets, TLC

\* ----- bounds of the model -----
MantBits == 6        \* significant bits of a number (binary64 has 53)
NSymbols == 2        \* length of top50 in a pass
MaxTopN == 2         \* TOP_N ranges over 0..MaxTopN
MaxTail == 2         \* free trailing candles of a generated history
MaxSmaLen == 5       \* longest input of the sma fixture
MaxSmaPeriod == 3    \* largest period of the sma fixture

VARIABLES
  \* the module-level constants read from the environment (lines 23-38):
  \* a record with the fields STRATEGY_MODE, EMA_PERIOD, VOL_SMA_PERIOD,
  \* VOL_MULTIPLIER_A, USE_BREAKOUT_A, BREAKOUT_LOOKBACK, PULLBACK_LOOKBACK_B,
  \* PULLBACK_BAND_PCT_B, REQUIRE_UPDAY_B, TOP_N
  config,
  \* main()
  pc,              \* position of main(): see MainPc
  top50,           \* the symbols of the pass, in input order
  market,          \* symbol -> the candles fetchDailyCandles would return
  task,            \* index -> "pending" | "done" | "failed"
  analysisResults, \* index -> what the task's promise resolved to
  completed,       \* indices in the order their tasks settled
  results, buys,   \* main's results and buys arrays
  stats,           \* [total, passTrend, passVol]
  thrown,          \* what main() rejected with: "none" | "tickers" | "send"
  exitCode,        \* -1 while running, else the process status
  errSent,         \* outcome of telegramSend(err) in the catch handler
  \* pure-function fixtures
  inCandles, outResult,     \* analyzeSymbol fixture
  inValues, inPeriod, outSma \* sma fixture

cfgVars == <<config>>
mainVars == <<pc, top50, market, task, analysisResults, completed, results,
              buys, stats, thrown, exitCode, errSent>>
evalVars == <<inCandles, outResult>>
smaVars == <<inValues, inPeriod, outSma>>
vars == <<cfgVars, mainVars, evalVars, smaVars>>

\* ----------------------------------------------------------------------
\* Numbers
\* ----------------------------------------------------------------------
NaN == <<0, 0>>
Infinity == <<1, 0>>
Undefined == <<0, -1>>   \* a hole read from an array (values[i] === undefined)

RECURSIVE Pow2(_)
Pow2(n) == IF n <= 0 THEN 1 ELSE 2 * Pow2(n - 1)

IntAbs(i) == IF i < 0 THEN -i ELSE i
IntMax(a, b) == IF a >= b THEN a ELSE b
Sign(i) == IF i > 0 THEN 1 ELSE IF i < 0 THEN -1 ELSE 0

isNaN(x) == x = NaN
isFinite(x) == x[2] > 0
Neg(x) == <<-x[1], x[2]>>

RECURSIVE Reduce(_, _)
Reduce(n, d) == IF d > 1 /\ n % 2 = 0 THEN Reduce(n \div 2, d \div 2) ELSE <<n, d>>

MantHi == Pow2(MantBits)       \* a mantissa m satisfies MantLo <= m < MantHi
MantLo == Pow2(MantBits - 1)

\* a/d * 2^e with a, d > 0, rounded to MantBits bits, ties to even
RECURSIVE RoundPos(_, _, _)
RoundPos(a, d, e) ==
  IF a >= d * MantHi THEN RoundPos(a, 2 * d, e + 1)
  ELSE IF a < d * MantLo THEN RoundPos(2 * a, d, e - 1)
  ELSE LET q == a \div d
           r == a % d
           m == IF 2 * r > d \/ (2 * r = d /\ q % 2 = 1) THEN q + 1 ELSE q
       IN  IF e >= 0 THEN <<m * Pow2(e), 1>> ELSE Reduce(m, Pow2(-e))

\* the number nearest to the rational n/d (d > 0)
Round(n, d) ==
  IF n = 0 THEN <<0, 1>>
  ELSE IF n > 0 THEN RoundPos(n, d, 0) ELSE Neg(RoundPos(-n, d, 0))

Num(i) == Round(i, 1)          \* Number("<integer literal>")
Dec(n, d) == Round(n, d)       \* Number("<decimal literal n/d>")

FAdd(x, y) ==
  IF isNaN(x) \/ isNaN(y) THEN NaN
  ELSE IF ~isFinite(x) THEN (IF ~isFinite(y) /\ y # x THEN NaN ELSE x)
  ELSE IF ~isFinite(y) THEN y
  ELSE LET d == IntMax(x[2], y[2])
       IN  Round(x[1] * (d \div x[2]) + y[1] * (d \div y[2]), d)

FSub(x, y) == FAdd(x, Neg(y))

FMul(x, y) ==
  IF isNaN(x) \/ isNaN(y) THEN NaN
  ELSE IF ~isFinite(x) \/ ~isFinite(y)
       THEN (IF x[1] = 0 \/ y[1] = 0 THEN NaN ELSE <<Sign(x[1]) * Sign(y[1]), 0>>)
  ELSE Round(x[1] * y[1], x[2] * y[2])

FDiv(x, y) ==
  IF isNaN(x) \/ isNaN(y) THEN NaN
  ELSE IF ~isFinite(x)
       THEN (IF ~isFinite(y) THEN NaN
             ELSE <<Sign(x[1]) * (IF y[1] < 0 THEN -1 ELSE 1), 0>>)
  ELSE IF ~isFinite(y) THEN <<0, 1>>
  ELSE IF y[1] = 0 THEN (IF x[1] = 0 THEN NaN ELSE <<Sign(x[1]), 0>>)
  ELSE Round(Sign(y[1]) * x[1] * y[2], x[2] * IntAbs(y[1]))

\* x < y, x <= y, x > y: false whenever an operand is NaN
FLt(x, y) ==
  /\ ~isNaN(x) /\ ~isNaN(y)
  /\ IF x[2] = 0 /\ y[2] = 0 THEN x[1] < y[1] ELSE x[1] * y[2] < y[1] * x[2]
FLe(x, y) ==
  /\ ~isNaN(x) /\ ~isNaN(y)
  /\ IF x[2] = 0 /\ y[2] = 0 THEN x[1] <= y[1] ELSE x[1] * y[2] <= y[1] * x[2]
FGt(x, y) == FLt(y, x)

FAbs(x) == <<IntAbs(x[1]), x[2]>>                       \* Math.abs
FMax(x, y) == IF isNaN(x) \/ isNaN(y) THEN NaN          \* Math.max
              ELSE IF FLt(x, y) THEN y ELSE x

\* ----------------------------------------------------------------------
\* Indicators
\* ----------------------------------------------------------------------
Candle(ts, o, h, l, c, v) ==
  [timestamp |-> ts, open |-> o, high |-> h, low |-> l, close |-> c, volume |-> v]

\* i is the 0-based loop index of the source
RECURSIVE emaLoop(_, _, _, _, _)
emaLoop(values, k, i, prev, out) ==
  IF i >= Len(values) THEN out
  ELSE LET v == values[i + 1]
       IN  IF v = Undefined THEN emaLoop(values, k, i + 1, prev, out)
           ELSE LET cur == FAdd(FMul(v, k), FMul(prev, FSub(Num(1), k)))
                IN  emaLoop(values, k, i + 1, cur, Append(out, cur))

ema(values, period) ==
  IF Len(values) = 0 THEN <<>>
  ELSE IF values[1] = Undefined THEN <<>>
  ELSE emaLoop(values, FDiv(Num(2), FAdd(Num(period), Num(1))), 1,
               values[1], <<values[1]>>)

trueRange(cur, prev) ==
  LET hl == FSub(cur.high, cur.low)
      hc == FAbs(FSub(cur.high, prev.close))
      lc == FAbs(FSub(cur.low, prev.close))
  IN  FMax(FMax(hl, hc), lc)

atr(candles, period) ==
  IF Len(candles) < 2 THEN <<>>
  ELSE LET trs == [j \in 1..(Len(candles) - 1) |->
                     trueRange(candles[j + 1], candles[j])]
           trAligned == <<Num(0)>> \o trs
       IN  ema(trAligned, period)

RECURSIVE smaLoop(_, _, _, _, _)
smaLoop(values, period, i, sum, out) ==
  IF i >= Len(values) THEN out
  ELSE LET val == values[i + 1]
       IN  IF val = Undefined
           THEN smaLoop(values, period, i + 1, sum, Append(out, NaN))
           ELSE LET added == FAdd(sum, val)
                    prevVal == IF i >= period /\ i - period < Len(values)
                               THEN values[i - period + 1] ELSE Undefined
                    s == IF i >= period /\ prevVal # Undefined
                         THEN FSub(added, prevVal) ELSE added
                    o == IF i >= period - 1 THEN FDiv(s, Num(period)) ELSE NaN
                IN  smaLoop(values, period, i + 1, s, Append(out, o))

sma(values, period) == smaLoop(values, period, 0, Num(0), <<>>)

\* ----------------------------------------------------------------------
\* Strategy evaluator
\* ----------------------------------------------------------------------
Null == [isNull |-> TRUE]

\* arr[i] ?? NaN, i 0-based
AtOrNaN(arr, i) == IF i >= 0 /\ i < Len(arr) THEN arr[i + 1] ELSE NaN

\* Math.max(...arr)
RECURSIVE MaxOf(_, _)
MaxOf(arr, i) == IF i > Len(arr) THEN Neg(Infinity)
                 ELSE FMax(arr[i], MaxOf(arr, i + 1))

\* arr.slice(from, to), 0-based, to exclusive
Slice(arr, from, to) == [j \in 1..IntMax(0, to - from) |-> arr[from + j]]

MinHistory_emaOnly(cfg) == cfg.EMA_PERIOD + 5
MinHistory(cfg) == IntMax(IntMax(cfg.EMA_PERIOD, cfg.VOL_SMA_PERIOD), cfg.BREAKOUT_LOOKBACK) + 5

\* the loop of lines 310-321: the number of up days among indices from..lastIdx
UpDays(candles, from, lastIdx) ==
  Cardinality({i \in from..lastIdx :
                 i >= 1 /\ FGt(candles[i + 1].close, candles[i].close)})

isAboveEma_orEqual(lastClose, lastEma) ==
  isFinite(lastEma) /\ FLe(lastEma, lastClose)
\* line 307
isAboveEma(lastClose, lastEma) == isFinite(lastEma) /\ FGt(lastClose, lastEma)

\* lines 228-350; cfg stands for the module-level constants the function reads
analyzeSymbol(cfg, symbol, candles) ==
  IF Len(candles) < MinHistory(cfg) THEN Null
  ELSE IF Len(candles) = 0 THEN Null
  ELSE
  LET closes == [j \in 1..Len(candles) |-> candles[j].close]
      volumes == [j \in 1..Len(candles) |-> candles[j].volume]
      highs == [j \in 1..Len(candles) |-> candles[j].high]
      emaN == ema(closes, cfg.EMA_PERIOD)
      volSmaN == sma(volumes, cfg.VOL_SMA_PERIOD)
      atrN == atr(candles, 14)
      lastIdx == Len(candles) - 1
      last == candles[lastIdx + 1]
      lastClose == last.close
      lastEma == AtOrNaN(emaN, lastIdx)
      lastVol == last.volume
      lastVolSma == AtOrNaN(volSmaN, lastIdx)
      lastAtr == AtOrNaN(atrN, lastIdx)
      lookbackStart == IntMax(0, lastIdx - cfg.BREAKOUT_LOOKBACK + 1)
      recentHighs == Slice(highs, lookbackStart, lastIdx)
      recentHigh == IF Len(recentHighs) > 0 THEN MaxOf(recentHighs, 1) ELSE lastClose
      breakoutLevel == recentHigh
      isBreakout == FGt(lastClose, breakoutLevel)
      breakoutRatio == IF FGt(breakoutLevel, Num(0))
                       THEN FSub(FDiv(lastClose, breakoutLevel), Num(1))
                       ELSE Num(0)
      atrOk == isFinite(lastAtr) /\ FGt(lastAtr, Num(0))
      emaOk == isFinite(lastEma) /\ FGt(lastEma, Num(0))
      stopLoss == IF atrOk THEN FSub(lastClose, FMul(lastAtr, Num(2)))
                  ELSE IF emaOk THEN FMul(lastEma, Dec(95, 100))
                  ELSE FMul(lastClose, Dec(9, 10))
      takeProfit == IF atrOk THEN FAdd(lastClose, FMul(lastAtr, Num(3)))
                    ELSE FMul(lastClose, Dec(115, 100))
      condTrend == isFinite(lastEma) /\ FGt(lastClose, lastEma)
      volSmaOk == isFinite(lastVolSma) /\ FGt(lastVolSma, Num(0))
      condVolumeA == volSmaOk /\ FGt(lastVol, FMul(lastVolSma, cfg.VOL_MULTIPLIER_A))
      volRatio == IF volSmaOk THEN FDiv(lastVol, lastVolSma) ELSE NaN
      \* mode A
      condBreakoutA == IF cfg.USE_BREAKOUT_A THEN isBreakout ELSE TRUE
      \* mode B
      emaDistance == IF emaOk THEN FDiv(FAbs(FSub(lastClose, lastEma)), lastEma)
                     ELSE Infinity
      isNearEma == FLe(emaDistance, cfg.PULLBACK_BAND_PCT_B)
      aboveEma == isAboveEma(lastClose, lastEma)
      upDays == UpDays(candles, IntMax(0, lastIdx - cfg.PULLBACK_LOOKBACK_B + 1), lastIdx)
      hasUpDays == ~cfg.REQUIRE_UPDAY_B \/ upDays >= (cfg.PULLBACK_LOOKBACK_B + 1) \div 2
      condBreakout == IF cfg.STRATEGY_MODE = "A" THEN condBreakoutA ELSE TRUE
      isBuy == IF cfg.STRATEGY_MODE = "A" THEN condTrend /\ condVolumeA /\ condBreakoutA
               ELSE IF cfg.STRATEGY_MODE = "B"
                    THEN isNearEma /\ aboveEma /\ hasUpDays /\ condVolumeA
               ELSE FALSE
      score == IF emaOk
               THEN FAdd(FSub(FDiv(lastClose, lastEma), Num(1)),
                         IF isFinite(volRatio) THEN FSub(volRatio, Num(1)) ELSE Num(0))
               ELSE Num(0)
  IN  [isNull |-> FALSE, symbol |-> symbol, isBuy |-> isBuy, score |-> score,
       lastClose |-> lastClose, ema20 |-> lastEma, volRatio |-> volRatio,
       breakout |-> breakoutRatio, stop |-> stopLoss, take |-> takeProfit,
       condTrend |-> condTrend, condVolumeA |-> condVolumeA,
       condBreakout |-> condBreakout]

\* ----------------------------------------------------------------------
\* Inputs: configurations and candle histories
\* ----------------------------------------------------------------------
\* process.env.STRATEGY_MODE, "unset" standing for an absent variable
ModeEnv == {"unset", "a", "B", "c"}

\* (process.env.STRATEGY_MODE ?? "A").toUpperCase()
toUpperCase(str) ==
  CASE str = "a" -> "A" [] str = "b" -> "B" [] str = "c" -> "C" [] OTHER -> str
StrategyModeOf(env) == toUpperCase(IF env = "unset" THEN "A" ELSE env)

\* <<EMA_PERIOD, VOL_SMA_PERIOD, BREAKOUT_LOOKBACK>>: each is the largest once
PeriodSets == {<<2, 2, 3>>, <<3, 2, 1>>, <<2, 4, 2>>}

Config(mode, per, useBreakout, pullback, requireUp, topN) ==
  [STRATEGY_MODE |-> mode,
   EMA_PERIOD |-> per[1], VOL_SMA_PERIOD |-> per[2], BREAKOUT_LOOKBACK |-> per[3],
   VOL_MULTIPLIER_A |-> Dec(110, 100), USE_BREAKOUT_A |-> useBreakout,
   PULLBACK_LOOKBACK_B |-> pullback, PULLBACK_BAND_PCT_B |-> Dec(2, 100),
   REQUIRE_UPDAY_B |-> requireUp, TOP_N |-> topN]

Modes == {StrategyModeOf(e) : e \in ModeEnv}

\* The configurations of the analyzeSymbol fixture: the periods and flags are
\* drawn from small sets, a flag being varied only under the mode that reads it.
EvalConfigs ==
  {Config("A", p, u, 5, TRUE, 5) : p \in PeriodSets, u \in BOOLEAN}
  \cup {Config("B", p, FALSE, l, r, 5) : p \in PeriodSets, l \in {1, 2}, r \in BOOLEAN}
  \cup {Config(m, p, FALSE, 5, TRUE, 5) : m \in Modes \ {"A", "B"}, p \in PeriodSets}

CloseVals == {33, 45, 57}
VolShapes == {<<8, 8>>, <<8, 16>>, <<0, 0>>}   \* <<earlier volume, last volume>>
HLShapes == {"range", "missing"}
Tails == UNION {[1..m -> CloseVals] : m \in 0..MaxTail}
PrefixLens == {0, 6, 7, 8}

\* What fetchDailyCandles returns for a response of n bars closing at b
\* followed by bars closing at tail[1], tail[2], ...: ascending timestamps,
\* positive finite closes.  "range": high and low two above and below the
\* close; "missing": the response has no high/low fields (Number(undefined)).
History(b, n, tail, vol, shape) ==
  [i \in 1..(n + Len(tail)) |->
     LET c == IF i <= n THEN b ELSE tail[i - n]
         v == IF i = n + Len(tail) THEN vol[2] ELSE vol[1]
     IN  Candle(i, Num(c),
                IF shape = "range" THEN Num(c + 2) ELSE NaN,
                IF shape = "range" THEN Num(c - 2) ELSE NaN,
                Num(c), Num(v))]

Histories ==
  {History(b, n, t, v, sh) :
     b \in CloseVals, n \in PrefixLens, t \in Tails, v \in VolShapes, sh \in HLShapes}

\* ----------------------------------------------------------------------
\* SpecEval: analyzeSymbol applied to one history
\* ----------------------------------------------------------------------
MainIdle ==
  /\ pc = "idle" /\ top50 = <<>> /\ market = <<>> /\ task = <<>>
  /\ analysisResults = <<>> /\ completed = <<>> /\ results = <<>>
  /\ buys = <<>> /\ stats = <<>> /\ thrown = "none" /\ exitCode = -1
  /\ errSent = "none"
EvalIdle == inCandles = <<>> /\ outResult = <<>>
SmaIdle == inValues = <<>> /\ inPeriod = 1 /\ outSma = <<>>

InitEval ==
  /\ config \in EvalConfigs
  /\ MainIdle
  /\ SmaIdle
  /\ inCandles \in Histories
  /\ outResult = <<>>

\* outResult holds the returned value once analyzeSymbol has run
Evaluate ==
  /\ outResult = <<>>
  /\ outResult' = <<analyzeSymbol(config, "SYM", inCandles)>>
  /\ UNCHANGED <<cfgVars, mainVars, smaVars, inCandles>>

NextEval == Evaluate
SpecEval == InitEval /\ [][NextEval]_vars

\* ----- properties of analyzeSymbol -----
Evaluated == outResult # <<>> /\ ~outResult[1].isNull
Res == outResult[1]

\* every close-to-close transition of the last PULLBACK_LOOKBACK_B bars is up
AllRecentUp ==
  /\ Len(inCandles) > config.PULLBACK_LOOKBACK_B
  /\ \A j \in (Len(inCandles) - config.PULLBACK_LOOKBACK_B + 1)..Len(inCandles) :
       FGt(inCandles[j].close, inCandles[j - 1].close)

OnEmaAllUp ==
  /\ Evaluated /\ config.STRATEGY_MODE = "B"
  /\ Res.lastClose = Res.ema20
  /\ AllRecentUp

\* C6 (as stated): in mode B, when the last close equals emaLast exactly and
\* every recent transition is an up day, isBuy equals condVolume.
C6_IsBuyEqualsCondVolume == OnEmaAllUp => (Res.isBuy = Res.condVolumeA)

\* C6 (amended): in mode B, when the last close equals emaLast exactly and
\* every recent transition is an up day, isBuy is false whatever condVolume
\* is, because isAboveEma requires the close to be strictly above the EMA.
C6_OnEmaNeverBuys == OnEmaAllUp => ~Res.isBuy

C6_Witness == OnEmaAllUp /\ Res.condVolumeA

CloseOf(c) == c.close
VolumeOf(c) == c.volume
FlatHistory ==
  \A i, j \in 1..Len(inCandles) :
    /\ CloseOf(inCandles[i]) = CloseOf(inCandles[j])
    /\ VolumeOf(inCandles[i]) = VolumeOf(inCandles[j])

\* C8: an evaluated history whose closes are all equal and whose volumes are
\* all equal has condTrend = false and isBuy = false, in mode A and in mode B.
C8_FlatNoTrendNoBuy ==
  (Evaluated /\ FlatHistory /\ config.STRATEGY_MODE \in {"A", "B"})
    => (~Res.condTrend /\ ~Res.isBuy)

\* C10: every result has stop < lastClose < take.
C10_StopBelowCloseBelowTake ==
  Evaluated => (FLt(Res.stop, Res.lastClose) /\ FLt(Res.lastClose, Res.take))

\* ----------------------------------------------------------------------
\* main(): one evaluation pass
\* ----------------------------------------------------------------------
Symbols == <<"BTC", "ETH", "XRP", "SOL", "ADA", "DOT">>
Rejected == <<"rejected">>     \* fetchDailyCandles rejects (network or parse error)

\* what the exchange serves for a symbol during the pass
Feeds ==
  {Rejected, <<>>,
   History(57, 7, <<45>>, <<8, 8>>, "range"),
   History(45, 8, <<57>>, <<8, 16>>, "range"),
   History(33, 8, <<45>>, <<8, 16>>, "range")}

byScoreDesc_ascending(a, b) == FSub(a.score, b.score)
\* (a, b) => b.score - a.score
byScoreDesc(a, b) == FSub(b.score, a.score)

\* Array.prototype.sort(byScoreDesc): stable; a NaN from the comparator
\* counts as 0.  x goes before the first element the comparator orders
\* after it.
RECURSIVE InsertSorted(_, _)
InsertSorted(sorted, x) ==
  IF sorted = <<>> THEN <<x>>
  ELSE LET c == byScoreDesc(sorted[1], x)
       IN  IF ~isNaN(c) /\ c[1] > 0 THEN <<x>> \o sorted
           ELSE <<sorted[1]>> \o InsertSorted(Tail(sorted), x)

RECURSIVE sortFrom(_, _, _)
sortFrom(arr, i, acc) ==
  IF i > Len(arr) THEN acc
  ELSE sortFrom(arr, i + 1, InsertSorted(acc, arr[i]))
sort(arr) == sortFrom(arr, 1, <<>>)

isBuyOf(r) == r.isBuy
notNull(r) == ~r.isNull

\* results.filter((r) => r.isBuy).sort(...).slice(0, TOP_N)
topBuys(res, topN) ==
  LET sorted == sort(SelectSeq(res, isBuyOf))
  IN  SubSeq(sorted, 1, IF topN < Len(sorted) THEN topN ELSE Len(sorted))

condTrendOf(r) == r.condTrend
condVolumeAOf(r) == r.condVolumeA

\* The configurations of a pass: TOP_N is varied under the mode in which the
\* served histories yield buys, and is the default of line 23 otherwise.
PassConfigs ==
  {Config("A", p, FALSE, 1, TRUE, n) : p \in PeriodSets, n \in 0..MaxTopN}
  \cup {Config(m, p, FALSE, 1, TRUE, 5) : m \in Modes \ {"A"}, p \in PeriodSets}

Init ==
  /\ config \in PassConfigs
  /\ pc = "fetchTickers"
  /\ top50 = <<>>
  /\ market \in [1..NSymbols -> Feeds]
  /\ task = <<>> /\ analysisResults = <<>> /\ completed = <<>>
  /\ results = <<>> /\ buys = <<>> /\ stats = <<>>
  /\ thrown = "none" /\ exitCode = -1 /\ errSent = "none"
  /\ EvalIdle /\ SmaIdle

\* lines 354-380: the tickers arrive, top50 is chosen and every symbol's
\* task is started (each task runs up to its await of fetchDailyCandles)
FetchTickersOk ==
  /\ pc = "fetchTickers"
  /\ top50' = SubSeq(Symbols, 1, NSymbols)
  /\ task' = [i \in 1..NSymbols |-> "pending"]
  /\ analysisResults' = [i \in 1..NSymbols |-> Null]
  /\ pc' = "analyzing"
  /\ UNCHANGED <<cfgVars, market, completed, results, buys, stats, thrown,
                 exitCode, errSent, evalVars, smaVars>>

\* line 354 throws: main() rejects
FetchTickersFail ==
  /\ pc = "fetchTickers"
  /\ thrown' = "tickers"
  /\ pc' = "catch"
  /\ UNCHANGED <<cfgVars, top50, market, task, analysisResults, completed,
                 results, buys, stats, exitCode, errSent, evalVars, smaVars>>

\* lines 373-374: the candles of top50[i] arrive and analyzeSymbol runs
CandleFetchOk(i) ==
  /\ pc = "analyzing" /\ task[i] = "pending"
  /\ market[i] # Rejected
  /\ analysisResults' = [analysisResults EXCEPT ![i] = analyzeSymbol(config, top50[i], market[i])]
  /\ task' = [task EXCEPT ![i] = "done"]
  /\ completed' = Append(completed, i)
  /\ UNCHANGED <<cfgVars, pc, top50, market, results, buys, stats, thrown,
                 exitCode, errSent, evalVars, smaVars>>

CandleFetchFail_rethrow(i) ==
  /\ pc = "analyzing" /\ task[i] = "pending"
  /\ market[i] = Rejected
  /\ task' = [task EXCEPT ![i] = "failed"]
  /\ completed' = Append(completed, i)
  /\ thrown' = "candles"
  /\ pc' = "catch"
  /\ UNCHANGED <<cfgVars, top50, market, analysisResults, results, buys, stats,
                 exitCode, errSent, evalVars, smaVars>>

\* lines 375-379: the fetch rejects; the task logs and resolves to null
CandleFetchFail(i) ==
  /\ pc = "analyzing" /\ task[i] = "pending"
  /\ market[i] = Rejected
  /\ analysisResults' = [analysisResults EXCEPT ![i] = Null]
  /\ task' = [task EXCEPT ![i] = "failed"]
  /\ completed' = Append(completed, i)
  /\ UNCHANGED <<cfgVars, pc, top50, market, results, buys, stats, thrown,
                 exitCode, errSent, evalVars, smaVars>>

JoinAndSummarize_inSettleOrder ==
  /\ pc = "analyzing"
  /\ \A i \in 1..NSymbols : task[i] # "pending"
  /\ LET res == SelectSeq([k \in 1..Len(completed) |-> analysisResults[completed[k]]],
                          notNull)
     IN  /\ results' = res
         /\ buys' = topBuys(res, config.TOP_N)
         /\ stats' = [total |-> Len(res), passTrend |-> Len(SelectSeq(res, condTrendOf)),
                      passVol |-> Len(SelectSeq(res, condVolumeAOf))]
  /\ pc' = "sending"
  /\ UNCHANGED <<cfgVars, top50, market, task, analysisResults, completed,
                 thrown, exitCode, errSent, evalVars, smaVars>>

\* lines 382-460: Promise.all resolves once every task has settled, with the
\* values in the order of top50; results, buys and the statistics are
\* computed and telegramSend(msg) is started
JoinAndSummarize ==
  /\ pc = "analyzing"
  /\ \A i \in 1..NSymbols : task[i] # "pending"
  /\ LET res == SelectSeq(analysisResults, notNull)
     IN  /\ results' = res
         /\ buys' = topBuys(res, config.TOP_N)
         /\ stats' = [total |-> Len(res), passTrend |-> Len(SelectSeq(res, condTrendOf)),
                      passVol |-> Len(SelectSeq(res, condVolumeAOf))]
  /\ pc' = "sending"
  /\ UNCHANGED <<cfgVars, top50, market, task, analysisResults, completed,
                 thrown, exitCode, errSent, evalVars, smaVars>>

\* line 460 resolves: main() resolves and the process ends with status 0
SendOk ==
  /\ pc = "sending"
  /\ pc' = "exited" /\ exitCode' = 0
  /\ UNCHANGED <<cfgVars, top50, market, task, analysisResults, completed,
                 results, buys, stats, thrown, errSent, evalVars, smaVars>>

\* line 460 rejects: main() rejects
SendFail ==
  /\ pc = "sending"
  /\ thrown' = "send"
  /\ pc' = "catch"
  /\ UNCHANGED <<cfgVars, top50, market, task, analysisResults, completed,
                 results, buys, stats, exitCode, errSent, evalVars, smaVars>>

\* lines 463-471, telegramSend(err) resolves
ErrSendOk ==
  /\ pc = "catch"
  /\ errSent' = "sent"
  /\ pc' = "exited" /\ exitCode' = 1
  /\ UNCHANGED <<cfgVars, top50, market, task, analysisResults, completed,
                 results, buys, stats, thrown, evalVars, smaVars>>

ErrSendFail_noExit ==
  /\ pc = "catch"
  /\ errSent' = "failed"
  /\ pc' = "unhandled"
  /\ UNCHANGED <<cfgVars, top50, market, task, analysisResults, completed,
                 results, buys, stats, thrown, exitCode, evalVars, smaVars>>

\* lines 463-471, telegramSend(err) rejects: logged, then process.exit(1)
ErrSendFail ==
  /\ pc = "catch"
  /\ errSent' = "failed"
  /\ pc' = "exited" /\ exitCode' = 1
  /\ UNCHANGED <<cfgVars, top50, market, task, analysisResults, completed,
                 results, buys, stats, thrown, evalVars, smaVars>>

Next ==
  \/ FetchTickersOk
  \/ FetchTickersFail
  \/ \E i \in 1..NSymbols : CandleFetchOk(i)
  \/ \E i \in 1..NSymbols : CandleFetchFail(i)
  \/ JoinAndSummarize
  \/ SendOk
  \/ SendFail
  \/ ErrSendOk
  \/ ErrSendFail

Spec == Init /\ [][Next]_vars

\* every started ticker or Telegram request settles
FairSpec ==
  /\ Spec
  /\ WF_vars(FetchTickersOk \/ FetchTickersFail)
  /\ WF_vars(SendOk \/ SendFail)
  /\ WF_vars(ErrSendOk \/ ErrSendFail)

\* ----- properties of a pass -----
Joined == stats # <<>>                 \* results, buys and stats are computed
Threshold ==
  IntMax(IntMax(config.EMA_PERIOD, config.VOL_SMA_PERIOD),
         config.BREAKOUT_LOOKBACK) + 5
Served(i) == market[i] # Rejected
TooShort(i) == Served(i) /\ Len(market[i]) < Threshold
SymbolsOf(res) == {res[k].symbol : k \in 1..Len(res)}
PosIn(res, sym) == CHOOSE k \in 1..Len(res) : res[k].symbol = sym

\* what analyzeSymbol returns for each configuration and served history
YieldTable ==
  [c \in PassConfigs, f \in Feeds \ {Rejected} |-> analyzeSymbol(c, "?", f)]

\* what each symbol's task yields, from the inputs alone
Yield(i) ==
  IF ~Served(i) THEN Null
  ELSE LET y == YieldTable[config, market[i]]
       IN  IF y.isNull THEN y ELSE [y EXCEPT !.symbol = Symbols[i]]
ExpectedResults == SelectSeq([i \in 1..NSymbols |-> Yield(i)], notNull)

\* C1: under a STRATEGY_MODE that is neither A nor B no symbol is evaluated,
\* no result is produced, and the pass ends as a failure.
C1_UnknownModeFailsFast ==
  config.STRATEGY_MODE \notin {"A", "B"} =>
    /\ \A i \in DOMAIN task : task[i] # "done"
    /\ results = <<>>
    /\ (pc = "exited" => exitCode # 0)

\* C2: the shortlist is the ranking of the per-symbol yields taken in the
\* order of top50, whatever order the tasks settled in.
C2_RankingIgnoresSettleOrder ==
  Joined => buys = topBuys(ExpectedResults, config.TOP_N)

\* two symbols with equal scores both make the shortlist although the later
\* one settled first
C2_Witness ==
  /\ Joined /\ completed = <<2, 1>>
  /\ Len(buys) = 2
  /\ buys[1].score = buys[2].score
  /\ buys[1].symbol = top50[1] /\ buys[2].symbol = top50[2]

\* C3: a rejected fetch makes its own task yield nothing, every other task
\* yields what it yields without the failure, the join waits for all of them
\* and the pass never fails because of a fetch.
C3_FetchFailureIsolated ==
  /\ thrown \in {"none", "tickers", "send"}
  /\ \A i \in DOMAIN task :
       /\ task[i] = "failed" => (~Served(i) /\ analysisResults[i].isNull)
       /\ task[i] = "done" => (Served(i) /\ analysisResults[i] = Yield(i))
  /\ Joined =>
       /\ \A i \in 1..NSymbols : task[i] # "pending"
       /\ \A i \in 1..NSymbols : ~Served(i) => top50[i] \notin SymbolsOf(results)
       /\ \A i \in 1..NSymbols :
            (Served(i) /\ ~Yield(i).isNull) =>
               /\ top50[i] \in SymbolsOf(results)
               /\ results[PosIn(results, top50[i])] = Yield(i)

C3_Witness ==
  /\ Joined /\ pc = "exited" /\ exitCode = 0
  /\ \E i, j \in 1..NSymbols :
       task[i] = "failed" /\ task[j] = "done" /\ top50[j] \in SymbolsOf(results)

\* C4: the shortlist holds only buys, in descending score order, the
\* min(TOP_N, number of buys) best of them, equal scores in input order.
C4_ShortlistShape ==
  Joined =>
    /\ \A k \in 1..Len(buys) : buys[k].isBuy /\ buys[k].symbol \in SymbolsOf(results)
    /\ \A k, l \in 1..Len(buys) : k < l => FLe(buys[l].score, buys[k].score)
    /\ Len(buys) = (IF config.TOP_N < Len(SelectSeq(results, isBuyOf)) THEN config.TOP_N
                    ELSE Len(SelectSeq(results, isBuyOf)))
    /\ \A k, l \in 1..Len(buys) :
         (k < l /\ buys[k].score = buys[l].score) =>
            PosIn(results, buys[k].symbol) < PosIn(results, buys[l].symbol)
    /\ \A k \in 1..Len(buys) : \A j \in 1..Len(results) :
         (results[j].isBuy /\ results[j].symbol \notin SymbolsOf(buys)) =>
            FLe(results[j].score, buys[k].score)

\* two buys with different scores, the better one later in the input, and a
\* result that is no buy
C4_Witness ==
  /\ Joined /\ Len(buys) = 2
  /\ FLt(buys[2].score, buys[1].score)
  /\ PosIn(results, buys[1].symbol) > PosIn(results, buys[2].symbol)

\* C5: analyzeSymbol yields nothing exactly when the history is shorter than
\* max(EMA_PERIOD, VOL_SMA_PERIOD, BREAKOUT_LOOKBACK) + 5, the empty history
\* included, and such a symbol is in neither results, the statistics nor buys.
C5_ShortHistoryYieldsNothing ==
  /\ \A i \in DOMAIN task :
       task[i] = "done" => (analysisResults[i].isNull <=> TooShort(i))
  /\ Joined =>
       /\ \A i \in 1..NSymbols :
            TooShort(i) => (top50[i] \notin SymbolsOf(results)
                            /\ top50[i] \notin SymbolsOf(buys))
       /\ stats.total = Cardinality({i \in 1..NSymbols : Served(i) /\ ~TooShort(i)})

\* an empty history and a history one bar short, next to one that is evaluated
C5_Witness ==
  /\ Joined
  /\ \E i, j \in 1..NSymbols :
       /\ market[i] = <<>> \/ (Served(i) /\ Len(market[i]) = Threshold - 1)
       /\ task[i] = "done"
       /\ Served(j) /\ Len(market[j]) = Threshold /\ top50[j] \in SymbolsOf(results)

\* C7: a pass that failed never ends with status 0, and it always goes on to
\* try the error notification and to end with status 1, also when the
\* notification fails.
C7_FailedPassExitsNonZero ==
  /\ [](thrown # "none" => exitCode # 0)
  /\ (thrown # "none") ~> (pc = "exited" /\ exitCode = 1 /\ errSent # "none")

C7_Witness == thrown = "send" /\ errSent = "failed" /\ pc = "exited" /\ exitCode = 1

\* ----------------------------------------------------------------------
\* SpecSma: sma applied to one array, holes included
\* ----------------------------------------------------------------------
SmaVals == {Num(1), Num(2), Num(3), Undefined}
SmaInputs == UNION {[1..m -> SmaVals] : m \in 0..MaxSmaLen}

InitSma ==
  /\ config = Config("A", <<20, 20, 20>>, FALSE, 5, TRUE, 5)
  /\ MainIdle /\ EvalIdle
  /\ inValues \in SmaInputs
  /\ inPeriod \in 1..MaxSmaPeriod
  /\ outSma = <<>>

\* outSma holds the returned array once sma has run
ApplySma ==
  /\ outSma = <<>>
  /\ outSma' = <<sma(inValues, inPeriod)>>
  /\ UNCHANGED <<cfgVars, mainVars, evalVars, inValues, inPeriod>>

NextSma == ApplySma
SpecSma == InitSma /\ [][NextSma]_vars

\* the window of inPeriod inputs ending at position i (1-based)
Window(i) == (i - inPeriod + 1)..i
NoHole(i) == \A j \in Window(i) : inValues[j] # Undefined
RECURSIVE SumNum(_, _)
SumNum(i, m) == IF m = 0 THEN 0 ELSE inValues[i - m + 1][1] + SumNum(i, m - 1)
MeanOfWindow(i) == Round(SumNum(i, inPeriod), inPeriod)

\* C9: the output is as long as the input, NaN at every hole and before a
\* full window, and at every later position whose window has no hole it is
\* the mean of the window's inputs.
C9_SmaSkipsHoles ==
  outSma # <<>> =>
    LET out == outSma[1]
    IN  /\ Len(out) = Len(inValues)
        /\ \A i \in 1..Len(inValues) :
             /\ inValues[i] = Undefined => isNaN(out[i])
             /\ (i < inPeriod /\ \A j \in 1..Len(inValues) : inValues[j] # Undefined)
                  => isNaN(out[i])
             /\ (i >= inPeriod /\ NoHole(i)) => out[i] = MeanOfWindow(i)

=============================================================================
